---- MODULE Spec2Model ----
(***************************************************************************)
(* Booking availability and booking lifecycle of the stayro backend        *)
(* (backend/apps/bookings).  Calendar dates are day numbers 1..MaxDay,     *)
(* a missing value (Python None, or a falsy 0) is Null.                    *)
(***************************************************************************)
EXTENDS Integers, Naturals, Sequences, FiniteSets, TLC

VARIABLES
    bookings,    \* the rows of table "bookings": a set of records, one per id
    nextId,      \* the id the next inserted row gets (auto-increment primary key)
    today,       \* date.today() / timezone.now().date()
    properties,  \* the rows of table "properties" the bookings refer to
    reqs,        \* requests in flight between their reads and their write
    answer       \* the last answer of AvailabilityChecker.check_availability

vars == <<bookings, nextId, today, properties, reqs, answer>>

----------------------------------------------------------------------------
(* Bounds of the model *)

MaxBookings == 2     \* rows ever inserted
MaxDay == 3          \* dates are 1..MaxDay
MaxToday == 2        \* the clock stops here
MaxGuests == 3       \* guests of a request are 0..MaxGuests
MaxMods == 1         \* modifications of one booking
MaxQueryDay == 4     \* dates of the seeded rows and availability queries
MaxRequests == 2     \* requests one worker serves

Null == 0
NoReason == "NULL"

BookingIds == 1..MaxBookings

----------------------------------------------------------------------------
(* Users and properties *)

Users == {"carol", "olive", "oscar", "adam"}

role(u) ==
    CASE u = "carol" -> "CUSTOMER"
      [] u = "adam" -> "ADMIN"
      [] OTHER -> "OWNER"

is_customer(u) == role(u) = "CUSTOMER"
is_owner(u) == role(u) = "OWNER"
is_admin(u) == role(u) = "ADMIN"

PropertyIds == {1, 2, 3}

InitProperties ==
    [p \in PropertyIds |->
        CASE p = 1 -> [owner |-> "oscar", capacity |-> 2, price_per_night |-> 100,
                       currency |-> "USD", status |-> "APPROVED",
                       rejection_reason |-> NoReason]
          [] p = 2 -> [owner |-> "olive", capacity |-> 1, price_per_night |-> 50,
                       currency |-> "EUR", status |-> "APPROVED",
                       rejection_reason |-> NoReason]
          [] OTHER -> [owner |-> "olive", capacity |-> 2, price_per_night |-> 80,
                       currency |-> "USD", status |-> "PENDING",
                       rejection_reason |-> NoReason]]

----------------------------------------------------------------------------
(* The Booking model *)

STATUS_CHOICES == {"PENDING", "APPROVED", "REJECTED", "CANCELLED", "COMPLETED"}

Ids(bks) == {b.id : b \in bks}
Get(bks, id) == CHOOSE b \in bks : b.id = id

validate_checkout_after_checkin(check_in, check_out) == check_out > check_in

\* a clean that leaves the date of arrival to the serializer of new bookings
clean_without_past_date(b, tdy, props) ==
    IF ~validate_checkout_after_checkin(b.check_in, b.check_out) THEN "validation_error"
    ELSE IF b.guests > props[b.rental_property].capacity THEN "validation_error"
    ELSE IF b.guests < 1 THEN "validation_error"
    ELSE "ok"

\* a clean without the field validators of guests
clean_without_minimum(b, tdy, props) ==
    IF ~validate_checkout_after_checkin(b.check_in, b.check_out) THEN "validation_error"
    ELSE IF b.status # "COMPLETED" /\ b.check_in < tdy THEN "validation_error"
    ELSE IF b.guests > props[b.rental_property].capacity THEN "validation_error"
    ELSE "ok"

\* Booking.clean, run by full_clean from every save, with the field validators
\* of guests (a positive integer, at least 1)
clean(b, tdy, props) ==
    IF ~validate_checkout_after_checkin(b.check_in, b.check_out) THEN "validation_error"
    ELSE IF b.status # "COMPLETED" /\ b.check_in < tdy THEN "validation_error"
    ELSE IF b.guests > props[b.rental_property].capacity THEN "validation_error"
    ELSE IF b.guests < 1 THEN "validation_error"
    ELSE "ok"

\* the row update or insert of Model.save: every field of the row is written
write(bks, b) == {x \in bks : x.id # b.id} \cup {b}

----------------------------------------------------------------------------
(* AvailabilityChecker *)

\* a filter that forgets requests still waiting for the owner
active_statuses_without_pending == {"APPROVED", "COMPLETED"}

\* a filter that lets CANCELLED bookings keep their dates
active_statuses_with_cancelled == {"PENDING", "APPROVED", "COMPLETED", "CANCELLED"}

active_statuses == {"PENDING", "APPROVED", "COMPLETED"}

\* closed-interval overlap: a shared turnover day counts as a conflict
overlap_filter_closed(b, check_in, check_out) ==
    b.check_in <= check_out /\ b.check_out >= check_in

overlap_filter(b, check_in, check_out) ==
    b.check_in < check_out /\ b.check_out > check_in

\* the check without its exclusion of the booking being updated
check_availability_no_exclude(bks, property, check_in, check_out, exclude_booking_id) ==
    LET conflicting_bookings ==
            {b \in bks : /\ b.rental_property = property
                         /\ b.status \in active_statuses
                         /\ overlap_filter(b, check_in, check_out)}
    IN [is_available |-> conflicting_bookings = {},
        conflicting_bookings |-> conflicting_bookings]

check_availability(bks, property, check_in, check_out, exclude_booking_id) ==
    LET active == {b \in bks : b.rental_property = property
                                /\ b.status \in active_statuses}
        rest == IF exclude_booking_id # Null
                THEN {b \in active : b.id # exclude_booking_id}
                ELSE active
        conflicting_bookings == {b \in rest : overlap_filter(b, check_in, check_out)}
    IN [is_available |-> conflicting_bookings = {},
        conflicting_bookings |-> conflicting_bookings]

----------------------------------------------------------------------------
(* Responses *)

Response(op, result, id, count) ==
    [op |-> op, result |-> result, id |-> id, count |-> count]

\* what a handler leaves behind: the table, the id counter and the response
Outcome(bks, nid, resp) == [bookings |-> bks, nextId |-> nid, resp |-> resp]

\* a save that writes the row first and validates it afterwards
booking_save_before_clean(bks, nid, tdy, props, b, op) ==
    IF clean(b, tdy, props) # "ok"
    THEN Outcome(write(bks, b), nid, Response(op, "validation_error", b.id, 0))
    ELSE Outcome(write(bks, b), nid, Response(op, "ok", b.id, 0))

\* booking.save(): full_clean, then the write; a ValidationError of the model
\* leaves the view as an unhandled error and nothing is written
booking_save(bks, nid, tdy, props, b, op) ==
    IF clean(b, tdy, props) # "ok"
    THEN Outcome(bks, nid, Response(op, "validation_error", b.id, 0))
    ELSE Outcome(write(bks, b), nid, Response(op, "ok", b.id, 0))

----------------------------------------------------------------------------
(* BookingSerializer: create *)

\* a date check that also refuses a stay beginning today
check_in_not_after_today(check_in, tdy) == check_in <= tdy

\* check_in < timezone.now().date()
check_in_in_past(check_in, tdy) == check_in < tdy

\* BookingSerializer.validate on the fields of a create request
serializer_validate(bks, tdy, props, property_id, check_in, check_out, guests) ==
    IF guests < 1 THEN [result |-> "invalid_guests", count |-> 0]
    ELSE IF check_out <= check_in THEN [result |-> "invalid_date_range", count |-> 0]
    ELSE IF check_in_in_past(check_in, tdy)
         THEN [result |-> "invalid_date_range", count |-> 0]
    ELSE IF property_id = Null THEN [result |-> "ok", count |-> 0]
    ELSE IF property_id \notin DOMAIN props
         THEN [result |-> "property_not_found", count |-> 0]
    ELSE IF props[property_id].status # "APPROVED"
         THEN [result |-> "property_not_approved", count |-> 0]
    ELSE LET av == check_availability(bks, property_id, check_in, check_out, Null)
         IN IF ~av.is_available
            THEN [result |-> "property_not_available",
                  count |-> Cardinality(av.conflicting_bookings)]
            ELSE IF guests > props[property_id].capacity
                 THEN [result |-> "capacity_exceeded", count |-> 0]
                 ELSE [result |-> "ok", count |-> 0]

\* BookingSerializer.create: the row built from the validated fields
new_booking(nid, props, user, property_id, check_in, check_out, guests) ==
    [id |-> nid,
     rental_property |-> property_id,
     customer |-> user,
     check_in |-> check_in,
     check_out |-> check_out,
     guests |-> guests,
     status |-> "PENDING",
     total_price |-> props[property_id].price_per_night * (check_out - check_in),
     currency |-> props[property_id].currency,
     rejection_reason |-> NoReason,
     modified_at |-> Null,
     modification_count |-> 0,
     previous_check_in |-> Null,
     previous_check_out |-> Null]

\* POST /bookings/ as one atomic request
create_booking(bks, nid, tdy, props, user, property_id, check_in, check_out, guests) ==
    LET v == serializer_validate(bks, tdy, props, property_id, check_in, check_out, guests)
    IN IF v.result # "ok"
       THEN Outcome(bks, nid, Response("create", v.result, Null, v.count))
       ELSE IF property_id \notin DOMAIN props
       THEN Outcome(bks, nid, Response("create", "server_error", Null, 0))
       ELSE LET b == new_booking(nid, props, user, property_id, check_in, check_out, guests)
                s == booking_save(bks, nid, tdy, props, b, "create")
            IN IF s.resp.result = "ok"
               THEN Outcome(s.bookings, nid + 1, s.resp)
               ELSE Outcome(bks, nid, Response("create", s.resp.result, Null, 0))

----------------------------------------------------------------------------
(* BookingViewSet *)

\* a queryset of the rows the caller is a party to, as customer or as owner
get_queryset_of_parties(bks, props, user) ==
    IF is_admin(user) THEN bks
    ELSE {b \in bks : b.customer = user \/ props[b.rental_property].owner = user}

\* get_queryset: the rows the caller's role lets it resolve
get_queryset(bks, props, user) ==
    IF is_customer(user) THEN {b \in bks : b.customer = user}
    ELSE IF is_owner(user) THEN {b \in bks : props[b.rental_property].owner = user}
    ELSE bks

\* What the reads and checks of a detail view come to: a result, a conflict
\* count, and (when the result is "ok") the in-memory booking about to be saved
Checked(result, count, obj) == [result |-> result, count |-> count, obj |-> obj]
NoBooking == [id |-> Null]

cancel_blocked_statuses == {"CANCELLED", "COMPLETED"}

\* cancel, up to (not including) booking.save()
cancel_view(bks, props, user, pk) ==
    IF pk \notin Ids(get_queryset(bks, props, user))
    THEN Checked("not_found", 0, NoBooking)
    ELSE LET booking == Get(bks, pk)
         IN IF booking.customer # user THEN Checked("unauthorized", 0, NoBooking)
            ELSE IF booking.status \in cancel_blocked_statuses
                 THEN Checked("invalid_state", 0, NoBooking)
                 ELSE Checked("ok", 0, [booking EXCEPT !.status = "CANCELLED"])

respond_actions == {"approve", "reject"}

\* a respond that a platform admin may make as well as the owner
is_owner_or_admin(props, booking, user) ==
    props[booking.rental_property].owner = user \/ is_admin(user)

\* the caller a respond request must come from: the owner of the property
is_respond_caller(props, booking, user) ==
    props[booking.rental_property].owner = user

\* the status check of cancel and modify, pasted into respond
respond_status_not_closed(booking) == booking.status \notin {"CANCELLED", "COMPLETED"}

\* the status a respond request must find
respond_status_ok(booking) == booking.status = "PENDING"

\* the booking a respond request excludes from its availability check
respond_exclude(booking) == booking.id

\* request.data.get('rejection_reason', 'No reason provided')
rejection_reason_of(reason) ==
    IF reason = "ABSENT" THEN "No reason provided" ELSE reason

\* respond, up to (not including) booking.save()
respond_view(bks, props, user, pk, action_type, reason) ==
    IF pk \notin Ids(get_queryset(bks, props, user))
    THEN Checked("not_found", 0, NoBooking)
    ELSE LET booking == Get(bks, pk)
         IN IF ~is_respond_caller(props, booking, user)
            THEN Checked("unauthorized", 0, NoBooking)
            ELSE IF action_type \notin respond_actions
            THEN Checked("invalid_action", 0, NoBooking)
            ELSE IF ~respond_status_ok(booking)
            THEN Checked("invalid_state", 0, NoBooking)
            ELSE IF action_type = "approve"
            THEN LET av == check_availability(bks, booking.rental_property,
                               booking.check_in, booking.check_out,
                               respond_exclude(booking))
                 IN IF ~av.is_available
                    THEN Checked("property_not_available",
                                 Cardinality(av.conflicting_bookings), NoBooking)
                    ELSE Checked("ok", 0, [booking EXCEPT !.status = "APPROVED",
                                                          !.rejection_reason = NoReason])
            ELSE Checked("ok", 0, [booking EXCEPT !.status = "REJECTED",
                                      !.rejection_reason = rejection_reason_of(reason)])

modify_blocked_statuses == {"CANCELLED", "COMPLETED"}

\* tracking that records a modification only when it moved the dates
track_modification_of_dates(booking, old_check_in, old_check_out, now) ==
    IF booking.check_in = old_check_in /\ booking.check_out = old_check_out
    THEN booking
    ELSE [booking EXCEPT !.previous_check_in = old_check_in,
                         !.previous_check_out = old_check_out,
                         !.modified_at = now,
                         !.modification_count = booking.modification_count + 1]

\* tracking that counts and dates a modification but keeps no former dates
track_modification_without_snapshot(booking, old_check_in, old_check_out, now) ==
    [booking EXCEPT !.modified_at = now,
                    !.modification_count = booking.modification_count + 1]

\* tracking that sends a modified booking back to the owner for a new answer
track_modification_resetting_status(booking, old_check_in, old_check_out, now) ==
    [booking EXCEPT !.previous_check_in = old_check_in,
                    !.previous_check_out = old_check_out,
                    !.modified_at = now,
                    !.modification_count = booking.modification_count + 1,
                    !.status = "PENDING"]

\* modify's tracking fields, set on the booking that already carries its new
\* values: the dates it had before, the time and the count
track_modification(booking, old_check_in, old_check_out, now) ==
    [booking EXCEPT !.previous_check_in = old_check_in,
                    !.previous_check_out = old_check_out,
                    !.modified_at = now,
                    !.modification_count = booking.modification_count + 1]

\* modify, up to (not including) booking.save(); a field of the request that is
\* missing (or falsy) is Null; now is the clock's reading for modified_at
modify_view(bks, props, now, user, pk, new_check_in, new_check_out, new_guests) ==
    IF pk \notin Ids(get_queryset(bks, props, user))
    THEN Checked("not_found", 0, NoBooking)
    ELSE LET booking == Get(bks, pk)
         IN IF booking.customer # user THEN Checked("unauthorized", 0, NoBooking)
            ELSE IF booking.status \in modify_blocked_statuses
            THEN Checked("invalid_state", 0, NoBooking)
            ELSE IF new_check_in = Null /\ new_check_out = Null /\ new_guests = Null
            THEN Checked("no_fields", 0, NoBooking)
            ELSE LET check_in == IF new_check_in # Null THEN new_check_in
                                 ELSE booking.check_in
                     check_out == IF new_check_out # Null THEN new_check_out
                                  ELSE booking.check_out
                     guests == IF new_guests # Null THEN new_guests ELSE booking.guests
                     av == check_availability(bks, booking.rental_property,
                                              check_in, check_out, booking.id)
                 IN IF check_in >= check_out
                    THEN Checked("invalid_date_range", 0, NoBooking)
                    ELSE IF ~av.is_available
                    THEN Checked("property_not_available",
                                 Cardinality(av.conflicting_bookings), NoBooking)
                    ELSE IF guests > props[booking.rental_property].capacity
                    THEN Checked("capacity_exceeded", 0, NoBooking)
                    ELSE Checked("ok", 0,
                           [track_modification(
                                [booking EXCEPT !.check_in = check_in,
                                                !.check_out = check_out,
                                                !.guests = guests],
                                booking.check_in, booking.check_out, now)
                            EXCEPT !.total_price =
                                  props[booking.rental_property].price_per_night
                                  * (check_out - check_in)])

\* a detail view as one atomic request: its reads and checks, then booking.save()
finish(bks, nid, tdy, props, op, pk, c) ==
    IF c.result # "ok"
    THEN Outcome(bks, nid, Response(op, c.result, pk, c.count))
    ELSE booking_save(bks, nid, tdy, props, c.obj, op)

cancel_booking(bks, nid, tdy, props, user, pk) ==
    finish(bks, nid, tdy, props, "cancel", pk, cancel_view(bks, props, user, pk))

respond_to_booking(bks, nid, tdy, props, user, pk, action_type, reason) ==
    finish(bks, nid, tdy, props, "respond", pk,
           respond_view(bks, props, user, pk, action_type, reason))

modify_booking(bks, nid, tdy, props, user, pk, new_check_in, new_check_out, new_guests) ==
    finish(bks, nid, tdy, props, "modify", pk,
           modify_view(bks, props, tdy, user, pk, new_check_in, new_check_out, new_guests))

\* GET /bookings/check_availability/: the count of conflicts, nothing written
check_availability_view(bks, nid, props, property_id, check_in, check_out) ==
    IF property_id \notin DOMAIN props
    THEN Outcome(bks, nid, Response("check_availability", "not_found", Null, 0))
    ELSE LET av == check_availability(bks, property_id, check_in, check_out, Null)
         IN Outcome(bks, nid,
                    Response("check_availability",
                             IF av.is_available THEN "available" ELSE "unavailable",
                             Null, Cardinality(av.conflicting_bookings)))

\* The process outside the booking views that closes a stay: an APPROVED booking
\* whose check-out has passed becomes COMPLETED
complete_booking(bks, nid, tdy, props, pk) ==
    LET booking == Get(bks, pk)
    IN booking_save(bks, nid, tdy, props, [booking EXCEPT !.status = "COMPLETED"],
                    "complete")

----------------------------------------------------------------------------
(* Requests, each served atomically *)

Apply(o) ==
    /\ bookings' = o.bookings
    /\ nextId' = o.nextId

CreateReq(us, ps, ds, gs) ==
    \E u \in us, p \in ps, ci \in ds, co \in ds, g \in gs :
        /\ nextId <= MaxBookings
        /\ Apply(create_booking(bookings, nextId, today, properties, u, p, ci, co, g))
        /\ UNCHANGED <<today, properties, reqs, answer>>

RespondReq(us, as, rs) ==
    \E u \in us, pk \in BookingIds, a \in as, r \in rs :
        /\ Apply(respond_to_booking(bookings, nextId, today, properties, u, pk, a, r))
        /\ UNCHANGED <<today, properties, reqs, answer>>

CancelReq(us) ==
    \E u \in us, pk \in BookingIds :
        /\ Apply(cancel_booking(bookings, nextId, today, properties, u, pk))
        /\ UNCHANGED <<today, properties, reqs, answer>>

ModifyReq(us, ds, gs) ==
    \E u \in us, pk \in BookingIds, ci \in ds \cup {Null}, co \in ds \cup {Null},
       g \in gs :
        /\ \A b \in bookings : b.id = pk => b.modification_count < MaxMods
        /\ Apply(modify_booking(bookings, nextId, today, properties, u, pk, ci, co, g))
        /\ UNCHANGED <<today, properties, reqs, answer>>

CheckAvailabilityReq(ps, ds) ==
    \E p \in ps, ci \in ds, co \in ds :
        /\ Apply(check_availability_view(bookings, nextId, properties, p, ci, co))
        /\ UNCHANGED <<today, properties, reqs, answer>>

Complete ==
    \E b \in bookings :
        /\ b.status = "APPROVED"
        /\ b.check_out <= today
        /\ Apply(complete_booking(bookings, nextId, today, properties, b.id))
        /\ UNCHANGED <<today, properties, reqs, answer>>

Tick ==
    /\ today < MaxToday
    /\ today' = today + 1
    /\ UNCHANGED <<bookings, nextId, properties, reqs, answer>>

NoAnswer == [asked |-> FALSE]

Init ==
    /\ bookings = {}
    /\ nextId = 1
    /\ today = 1
    /\ properties = InitProperties
    /\ reqs = <<>>
    /\ answer = NoAnswer

----------------------------------------------------------------------------
(* Spec: the four lifecycle operations, the availability query, the closing  *)
(* of stays and the clock, one request at a time                             *)

Creators == {"carol"}
Callers == {"carol", "oscar", "olive"}
RequestProperties == PropertyIds \cup {9}
RequestDates == 1..MaxDay
RequestGuests == {-1, 0, 1, MaxGuests}
RequestActions == {"approve", "reject", "cancel"}
RequestReasons == {"ABSENT"}

Create == CreateReq(Creators, RequestProperties, RequestDates, RequestGuests)
Respond == RespondReq(Callers, RequestActions, RequestReasons)
Cancel == CancelReq(Callers)
Modify == ModifyReq(Creators, RequestDates, RequestGuests)
CheckAvailability == CheckAvailabilityReq(RequestProperties, RequestDates)

Next == Create \/ Respond \/ Cancel \/ Modify \/ CheckAvailability \/ Complete \/ Tick

Spec == Init /\ [][Next]_vars

----------------------------------------------------------------------------
(* SpecAvail: AvailabilityChecker.check_availability on seeded tables.  The   *)
(* seed command inserts rows of any status through the model's save, with no *)
(* availability check; the queries follow                                    *)

QueryDates == 1..MaxQueryDay
QueryProperties == {1, 2}

\* seed_data: Booking.objects.get_or_create of one row, saved through full_clean
seed_booking(bks, nid, tdy, props, property_id, check_in, check_out, status) ==
    LET b == [new_booking(nid, props, "carol", property_id, check_in, check_out, 1)
                 EXCEPT !.status = status, !.rejection_reason = ""]
        found == {x \in bks : /\ x.rental_property = b.rental_property
                              /\ x.customer = b.customer
                              /\ x.check_in = b.check_in
                              /\ x.check_out = b.check_out}
    IN IF found = {} /\ clean(b, tdy, props) = "ok" THEN write(bks, b) ELSE bks

Seed ==
    \E p \in QueryProperties, ci \in QueryDates, co \in QueryDates,
       st \in STATUS_CHOICES :
        /\ nextId <= MaxBookings
        /\ ~answer.asked
        /\ ci < co
        /\ bookings' = seed_booking(bookings, nextId, today, properties, p, ci, co, st)
        /\ nextId' = IF bookings' = bookings THEN nextId ELSE nextId + 1
        /\ UNCHANGED <<today, properties, reqs, answer>>

\* one call of check_availability, its arguments and result kept in answer
Query ==
    \E p \in QueryProperties, ci \in QueryDates, co \in QueryDates,
       e \in {Null} \cup BookingIds :
        /\ ci < co
        /\ LET av == check_availability(bookings, p, ci, co, e)
           IN answer' = [asked |-> TRUE, property |-> p, check_in |-> ci,
                         check_out |-> co, exclude_booking_id |-> e,
                         is_available |-> av.is_available,
                         conflicting_bookings |-> av.conflicting_bookings]
        /\ UNCHANGED <<bookings, nextId, today, properties, reqs>>

NextAvail == Seed \/ Query

SpecAvail == Init /\ [][NextAvail]_vars

\* C4: check_availability returns as conflicts exactly the bookings of the
\* property that are PENDING, APPROVED or COMPLETED, are not the excluded
\* booking, begin before the requested check_out and end after the requested
\* check_in; is_available is true iff there is none; a booking that ends on the
\* requested check_in, or begins on the requested check_out, is no conflict
C4_ConflictsExactly ==
    answer.asked =>
        /\ answer.conflicting_bookings =
              {b \in bookings :
                  /\ b.rental_property = answer.property
                  /\ b.status \in {"PENDING", "APPROVED", "COMPLETED"}
                  /\ b.id # answer.exclude_booking_id
                  /\ b.check_in < answer.check_out
                  /\ b.check_out > answer.check_in}
        /\ answer.is_available <=> (answer.conflicting_bookings = {})
        /\ \A b \in bookings :
              (b.check_out = answer.check_in \/ b.check_in = answer.check_out)
                  => b \notin answer.conflicting_bookings

\* a query that excludes an overlapping active booking, keeps another that
\* overlaps only partly, and so answers "not available" with one conflict
C4_Witness ==
    /\ answer.asked
    /\ ~answer.is_available
    /\ Cardinality(answer.conflicting_bookings) = 1
    /\ \E x \in bookings, y \in bookings :
          /\ x.id = answer.exclude_booking_id
          /\ x.rental_property = answer.property
          /\ x.status = "PENDING"
          /\ x.check_in < answer.check_out /\ x.check_out > answer.check_in
          /\ y \in answer.conflicting_bookings
          /\ y.status = "COMPLETED"
          /\ y.check_in < answer.check_in /\ y.check_out < answer.check_out

----------------------------------------------------------------------------
(* SpecConc: two request workers.  A request is two steps: its reads and     *)
(* checks (get_object, the status checks, the availability query), then      *)
(* booking.save() of the object it holds in memory.  Nothing in the views or *)
(* the serializer opens a transaction or locks a row, so the steps of        *)
(* different requests interleave freely                                      *)

Workers == {1, 2}

Idle(n) == [pc |-> "idle", op |-> "none", pk |-> Null, obj |-> NoBooking,
            result |-> "none", served |-> n]
Holding(op, obj, n) == [pc |-> "saving", op |-> op, pk |-> obj.id, obj |-> obj,
                        result |-> "none", served |-> n]
Done(op, pk, result, n) == [pc |-> "done", op |-> op, pk |-> pk, obj |-> NoBooking,
                            result |-> result, served |-> n]

InitConc ==
    /\ bookings = {}
    /\ nextId = 1
    /\ today = 1
    /\ properties = InitProperties
    /\ reqs = [w \in Workers |-> Idle(0)]
    /\ answer = NoAnswer

CanBegin(w) == reqs[w].pc \in {"idle", "done"} /\ reqs[w].served < MaxRequests

\* the reads and checks of a detail view, on the table as it is now
Begin(w, op, pk, c) ==
    /\ reqs' = [reqs EXCEPT ![w] =
                  IF c.result = "ok"
                  THEN Holding(op, c.obj, reqs[w].served + 1)
                  ELSE Done(op, pk, c.result, reqs[w].served + 1)]
    /\ UNCHANGED <<bookings, nextId, today, properties, answer>>

ConcProperties == {1}
ConcDates == 1..MaxDay

\* BookingSerializer.validate of a create request
BeginCreate ==
    \E w \in Workers, p \in ConcProperties, ci \in ConcDates, co \in ConcDates :
        /\ CanBegin(w)
        /\ nextId <= MaxBookings
        /\ LET v == serializer_validate(bookings, today, properties, p, ci, co, 1)
           IN Begin(w, "create", Null,
                    Checked(v.result, v.count,
                            new_booking(Null, properties, "carol", p, ci, co, 1)))

BeginRespond ==
    \E w \in Workers, pk \in BookingIds, a \in respond_actions :
        /\ CanBegin(w)
        /\ Begin(w, "respond", pk,
                 respond_view(bookings, properties, "oscar", pk, a, "ABSENT"))

BeginCancel ==
    \E w \in Workers, pk \in BookingIds :
        /\ CanBegin(w)
        /\ Begin(w, "cancel", pk, cancel_view(bookings, properties, "carol", pk))

BeginModify ==
    \E w \in Workers, pk \in BookingIds, ci \in ConcDates \cup {Null},
       co \in ConcDates \cup {Null} :
        /\ CanBegin(w)
        /\ \A b \in bookings : b.id = pk => b.modification_count < MaxMods
        /\ Begin(w, "modify", pk,
                 modify_view(bookings, properties, today, "carol", pk, ci, co, Null))

\* booking.save() of the object the request holds: full_clean, then the insert
\* (a create, which gets the next id) or the update of every column of the row
Save ==
    \E w \in Workers :
        /\ reqs[w].pc = "saving"
        /\ LET r == reqs[w]
               b == IF r.op = "create" THEN [r.obj EXCEPT !.id = nextId] ELSE r.obj
               o == booking_save(bookings, nextId, today, properties, b, r.op)
           IN /\ bookings' = o.bookings
              /\ nextId' = IF r.op = "create" /\ o.resp.result = "ok"
                           THEN nextId + 1 ELSE nextId
              /\ reqs' = [reqs EXCEPT ![w] = Done(r.op, b.id, o.resp.result, r.served)]
        /\ UNCHANGED <<today, properties, answer>>

NextConc == BeginCreate \/ BeginRespond \/ BeginCancel \/ BeginModify \/ Save

SpecConc == InitConc /\ [][NextConc]_vars

----------------------------------------------------------------------------
(* Properties of Spec *)

ActiveSet == {"PENDING", "APPROVED", "COMPLETED"}

RangesOverlap(a_in, a_out, b_in, b_out) == a_in < b_out /\ a_out > b_in

\* the bookings of property p that occupy some night of [ci, co), other than
\* the booking with id except
Occupying(bks, p, ci, co, except) ==
    {b \in bks : /\ b.rental_property = p
                 /\ b.status \in ActiveSet
                 /\ b.id # except
                 /\ RangesOverlap(b.check_in, b.check_out, ci, co)}

\* C1: after any sequence of atomically served create, respond, cancel and
\* modify requests, no two distinct bookings of one property that are both
\* PENDING, APPROVED or COMPLETED have overlapping ranges
C1_NoDoubleBooking ==
    \A a \in bookings, b \in bookings :
        (/\ a.id # b.id
         /\ a.rental_property = b.rental_property
         /\ a.status \in ActiveSet
         /\ b.status \in ActiveSet)
        => ~RangesOverlap(a.check_in, a.check_out, b.check_in, b.check_out)

\* two back-to-back active stays on one property, one approved by the owner,
\* the other moved there by a modify
C1_Witness ==
    \E a \in bookings, b \in bookings :
        /\ a.id # b.id
        /\ a.rental_property = b.rental_property
        /\ a.status = "APPROVED"
        /\ b.status \in ActiveSet
        /\ b.modification_count > 0
        /\ b.previous_check_in # b.check_in
        /\ a.check_out = b.check_in

\* the create requests that are valid but for availability
ValidCreateRequests ==
    {r \in [user : Creators, property_id : PropertyIds, check_in : RequestDates,
            check_out : RequestDates, guests : 1..MaxGuests] :
        /\ properties[r.property_id].status = "APPROVED"
        /\ r.check_out > r.check_in
        /\ r.check_in >= today
        /\ r.guests <= properties[r.property_id].capacity}

CreateOutcome(r) ==
    create_booking(bookings, nextId, today, properties,
                   r.user, r.property_id, r.check_in, r.check_out, r.guests)

\* C3: a create request on an APPROVED property with check_out > check_in,
\* check_in not before today and 1 <= guests <= capacity succeeds, adding one
\* PENDING booking, iff no PENDING, APPROVED or COMPLETED booking of the
\* property overlaps the range; otherwise it fails as property-not-available,
\* reports the number of those bookings and adds nothing
C3_CreateIffNoConflict ==
    \A r \in ValidCreateRequests :
        LET o == CreateOutcome(r)
            conflicts == Occupying(bookings, r.property_id, r.check_in, r.check_out,
                                   Null)
        IN IF conflicts = {}
           THEN /\ o.resp.result = "ok"
                /\ \E b \in o.bookings :
                      /\ o.bookings = bookings \cup {b}
                      /\ b \notin bookings
                      /\ b.status = "PENDING"
                      /\ b.rental_property = r.property_id
                      /\ b.check_in = r.check_in
                      /\ b.check_out = r.check_out
                      /\ b.guests = r.guests
           ELSE /\ o.resp.result = "property_not_available"
                /\ o.resp.count = Cardinality(conflicts)
                /\ o.bookings = bookings

\* two creates have succeeded back to back on one property, and a third, valid
\* request across both is refused with a count of 2
C3_Witness ==
    /\ \E a \in bookings, b \in bookings :
          /\ a.id < b.id
          /\ a.rental_property = b.rental_property
          /\ a.status = "PENDING" /\ b.status = "PENDING"
          /\ a.modification_count = 0 /\ b.modification_count = 0
    /\ \E r \in ValidCreateRequests :
          /\ CreateOutcome(r).resp.result = "property_not_available"
          /\ CreateOutcome(r).resp.count = 2

\* C5 as first stated: once a booking is CANCELLED or REJECTED, a create for its
\* range on its property (by its customer, for its number of guests) succeeds
\* whenever no other PENDING, APPROVED or COMPLETED booking overlaps that range
C5_FormerRangeAlwaysBookable ==
    \A x \in bookings :
        (/\ x.status \in {"CANCELLED", "REJECTED"}
         /\ Occupying(bookings, x.rental_property, x.check_in, x.check_out, x.id) = {})
        => create_booking(bookings, nextId, today, properties, x.customer,
                          x.rental_property, x.check_in, x.check_out, x.guests)
              .resp.result = "ok"

\* C5: a CANCELLED or REJECTED booking is in no conflict set, and a create for
\* its range on its property, with check_in not before today and guests within
\* the capacity, succeeds whenever no other PENDING, APPROVED or COMPLETED
\* booking overlaps that range
C5_InactiveNeverBlocks ==
    \A x \in bookings :
        x.status \in {"CANCELLED", "REJECTED"} =>
            /\ \A ci \in RequestDates, co \in RequestDates, e \in {Null} \cup BookingIds :
                  x \notin check_availability(bookings, x.rental_property, ci, co, e)
                              .conflicting_bookings
            /\ \A r \in ValidCreateRequests :
                  (/\ r.property_id = x.rental_property
                   /\ r.check_in = x.check_in
                   /\ r.check_out = x.check_out
                   /\ Occupying(bookings, x.rental_property, x.check_in, x.check_out,
                                x.id) = {})
                  => CreateOutcome(r).resp.result = "ok"

\* a booking was cancelled or rejected and a later create took its very range
C5_Witness ==
    \E x \in bookings, y \in bookings :
        /\ x.id < y.id
        /\ x.status \in {"CANCELLED", "REJECTED"}
        /\ y.status \in ActiveSet
        /\ y.modification_count = 0
        /\ y.rental_property = x.rental_property
        /\ y.check_in = x.check_in
        /\ y.check_out = x.check_out

AllActions == {"approve", "reject", "cancel", "complete"}
AllReasons == {"ABSENT", "full"}

RespondOutcome(u, pk, a, r) ==
    respond_to_booking(bookings, nextId, today, properties, u, pk, a, r)

\* a respond request writes only to a PENDING booking, only for 'approve' or
\* 'reject' and only from the property's owner; any other is refused, the
\* table unchanged
RespondOnlyOnPending ==
    \A u \in Users, b \in bookings, a \in AllActions, r \in AllReasons :
        LET o == RespondOutcome(u, b.id, a, r)
        IN /\ (b.status # "PENDING" \/ a \notin {"approve", "reject"})
                => (o.resp.result # "ok" /\ o.bookings = bookings)
           /\ (o.resp.result = "ok" \/ o.bookings # bookings)
                => /\ b.status = "PENDING"
                   /\ a \in {"approve", "reject"}
                   /\ u = properties[b.rental_property].owner
                   /\ Get(o.bookings, b.id).status \in {"APPROVED", "REJECTED"}

\* P holds of the outcome of every create, respond, cancel and modify request
\* that can be made in the current state
ForEveryLifecycleRequest(P(_)) ==
    /\ \A u \in Creators, p \in RequestProperties, ci \in RequestDates,
          co \in RequestDates, g \in RequestGuests :
            P(create_booking(bookings, nextId, today, properties, u, p, ci, co, g))
    /\ \A u \in Users, pk \in BookingIds, a \in AllActions, r \in AllReasons :
            P(RespondOutcome(u, pk, a, r))
    /\ \A u \in Users, pk \in BookingIds :
            P(cancel_booking(bookings, nextId, today, properties, u, pk))
    /\ \A u \in Users, pk \in BookingIds, ci \in RequestDates \cup {Null},
          co \in RequestDates \cup {Null}, g \in RequestGuests :
            P(modify_booking(bookings, nextId, today, properties, u, pk, ci, co, g))

\* the outcome o turns no booking that has left PENDING back to PENDING
LeavesResponded(o) ==
    \A b \in bookings, c \in o.bookings :
        (c.id = b.id /\ b.status # "PENDING") => c.status # "PENDING"

\* C6: respond changes a booking only when its status is PENDING and the action
\* is 'approve' or 'reject'; in any other status, or with any other action, it
\* fails and leaves the booking unchanged; and since no request returns a
\* booking to PENDING, every respond after a successful one fails
C6_RespondOnlyOnce ==
    /\ RespondOnlyOnPending
    /\ ForEveryLifecycleRequest(LeavesResponded)
    /\ \A b \in bookings :
          (b.status = "APPROVED" /\ b.check_out <= today)
              => LeavesResponded(complete_booking(bookings, nextId, today,
                                                  properties, b.id))

\* the owner has approved one booking and rejected another, and a further
\* respond on the approved one is refused for its state
C6_Witness ==
    \E b \in bookings, c \in bookings :
        /\ b.status = "APPROVED"
        /\ c.status = "REJECTED"
        /\ c.rejection_reason = "No reason provided"
        /\ RespondOutcome(properties[b.rental_property].owner, b.id, "reject", "ABSENT")
              .resp.result = "invalid_state"

\* C7: respond(approve) by the owner on a PENDING booking sets it APPROVED with
\* no rejection reason iff no other PENDING, APPROVED or COMPLETED booking of
\* the property overlaps its range (the booking itself never counts), and
\* otherwise fails as property-not-available and leaves it PENDING
C7_ApproveIffNoConflict ==
    \A b \in bookings :
        b.status = "PENDING" =>
            LET o == RespondOutcome(properties[b.rental_property].owner, b.id,
                                    "approve", "ABSENT")
                others == Occupying(bookings, b.rental_property, b.check_in,
                                    b.check_out, b.id)
            IN IF others = {}
               THEN /\ o.resp.result = "ok"
                    /\ o.bookings = (bookings \ {b})
                          \cup {[b EXCEPT !.status = "APPROVED",
                                          !.rejection_reason = NoReason]}
               ELSE /\ o.resp.result = "property_not_available"
                    /\ o.bookings = bookings

\* the status changes C10 allows a lifecycle operation
AllowedStatusChanges ==
    {<<"PENDING", "APPROVED">>, <<"PENDING", "REJECTED">>,
     <<"PENDING", "CANCELLED">>, <<"APPROVED", "CANCELLED">>}

\* the outcome o changes the status of a booking only as C10 allows
ChangesStatusAsListed(o) ==
    \A b \in bookings, c \in o.bookings :
        (c.id = b.id /\ c.status # b.status)
            => <<b.status, c.status>> \in AllowedStatusChanges

\* C10: the only status changes a lifecycle operation performs are PENDING to
\* APPROVED, PENDING to REJECTED, PENDING to CANCELLED and APPROVED to
\* CANCELLED; a CANCELLED, REJECTED or COMPLETED booking keeps its status
C10_OnlyListedTransitions == ForEveryLifecycleRequest(ChangesStatusAsListed)

\* C2: under any interleaving of concurrent create, modify and respond(approve)
\* requests on one property, no two distinct PENDING, APPROVED or COMPLETED
\* bookings of the property overlap; two concurrent creates for overlapping
\* ranges never both succeed
C2_NoDoubleBookingConcurrent ==
    \A b \in bookings :
        b.status \in ActiveSet
            => Occupying(bookings, b.rental_property, b.check_in, b.check_out,
                         b.id) = {}

\* C8: of two respond requests on one PENDING booking that run concurrently, at
\* most one succeeds
C8_AtMostOneRespondSucceeds ==
    \A v \in Workers, w \in Workers :
        (/\ v # w
         /\ reqs[v].pc = "done" /\ reqs[v].op = "respond" /\ reqs[v].result = "ok"
         /\ reqs[w].pc = "done" /\ reqs[w].op = "respond" /\ reqs[w].result = "ok")
        => reqs[v].pk # reqs[w].pk

\* C9: under any interleaving of cancel, respond and modify requests on one
\* booking, a committed status is never overwritten by a request that read
\* the booking before it: a CANCELLED booking stays CANCELLED, and an APPROVED
\* booking is never PENDING again
C9_NoStaleOverwrite ==
    [][\A b \in bookings, c \in bookings' :
          c.id = b.id =>
              /\ (b.status = "CANCELLED" => c.status = "CANCELLED")
              /\ (b.status = "APPROVED" => c.status # "PENDING")]_vars

----------------------------------------------------------------------------
(* Properties of Spec: cancel, authorization, modify, create *)

\* the outcome o leaves the table as it is, but for booking b now being c
Replaces(o, b, c) == o.bookings = (bookings \ {b}) \cup {c}

\* C11: a cancel by the booking's customer sets the status to CANCELLED (and
\* changes nothing else) whenever the status is not CANCELLED or COMPLETED,
\* and fails, the booking unchanged, when it is CANCELLED or COMPLETED
C11_CancelUnlessClosed ==
    \A b \in bookings :
        LET o == cancel_booking(bookings, nextId, today, properties, b.customer, b.id)
        IN IF b.status \notin {"CANCELLED", "COMPLETED"}
           THEN /\ o.resp.result = "ok"
                /\ Replaces(o, b, [b EXCEPT !.status = "CANCELLED"])
           ELSE /\ o.resp.result # "ok"
                /\ o.bookings = bookings

\* C12: a cancel or a modify from any user but the booking's customer, and a
\* respond from any user but the owner of the booking's property, fails as
\* unauthorized or not found and leaves the table unchanged, whatever the
\* booking's status
C12_OnlyCustomerAndOwnerWrite ==
    \A b \in bookings, u \in Users :
        LET refused(o) == /\ o.resp.result \in {"unauthorized", "not_found"}
                          /\ o.bookings = bookings
        IN /\ u # b.customer =>
                /\ refused(cancel_booking(bookings, nextId, today, properties, u, b.id))
                /\ \A ci \in RequestDates \cup {Null}, co \in RequestDates \cup {Null},
                      g \in RequestGuests :
                        refused(modify_booking(bookings, nextId, today, properties,
                                               u, b.id, ci, co, g))
           /\ u # properties[b.rental_property].owner =>
                \A a \in AllActions, r \in AllReasons :
                    refused(RespondOutcome(u, b.id, a, r))

\* a PENDING and a CANCELLED booking are stored, and on the PENDING one the
\* requests of the admin, of another owner and of the customer acting as
\* owner are all refused
C12_Witness ==
    /\ \E d \in bookings : d.status = "CANCELLED"
    /\ \E b \in bookings :
          /\ b.status = "PENDING"
          /\ properties[b.rental_property].owner = "oscar"
          /\ RespondOutcome("adam", b.id, "approve", "ABSENT").resp.result
                = "unauthorized"
          /\ RespondOutcome("olive", b.id, "approve", "ABSENT").resp.result
                = "not_found"
          /\ RespondOutcome("carol", b.id, "approve", "ABSENT").resp.result
                = "unauthorized"
          /\ cancel_booking(bookings, nextId, today, properties, "adam", b.id)
                .resp.result = "unauthorized"
          /\ cancel_booking(bookings, nextId, today, properties, "oscar", b.id)
                .resp.result = "unauthorized"

\* the outcome o raises the modification_count of a stored booking by one if o
\* is a successful modify of that booking, and otherwise leaves it as it is;
\* a booking that o adds starts at 0
CountsModifies(o) ==
    /\ \A b \in bookings, c \in o.bookings :
          c.id = b.id =>
              c.modification_count =
                  b.modification_count
                  + (IF o.resp.op = "modify" /\ o.resp.result = "ok" /\ o.resp.id = b.id
                     THEN 1 ELSE 0)
    /\ \A c \in o.bookings :
          c.id \notin Ids(bookings) => c.modification_count = 0

\* C13: every successful modify, also one that changes only the guests, leaves
\* in previous_check_in and previous_check_out the dates the booking had just
\* before it and raises modification_count by exactly one; a booking starts
\* at 0 and nothing else changes the count, so modification_count is the
\* number of successful modifies of the booking
C13_ModifySnapshot ==
    /\ \A b \in bookings, ci \in RequestDates \cup {Null},
          co \in RequestDates \cup {Null}, g \in RequestGuests :
            LET o == modify_booking(bookings, nextId, today, properties,
                                    b.customer, b.id, ci, co, g)
            IN o.resp.result = "ok" =>
                 LET c == Get(o.bookings, b.id)
                 IN /\ c.previous_check_in = b.check_in
                    /\ c.previous_check_out = b.check_out
                    /\ c.modification_count = b.modification_count + 1
    /\ ForEveryLifecycleRequest(CountsModifies)
    /\ \A b \in bookings :
          (b.status = "APPROVED" /\ b.check_out <= today)
              => CountsModifies(complete_booking(bookings, nextId, today,
                                                 properties, b.id))

\* one booking was modified without moving its dates, another was moved
C13_Witness ==
    \E b \in bookings, c \in bookings :
        /\ b.modification_count = 1
        /\ b.previous_check_in = b.check_in /\ b.previous_check_out = b.check_out
        /\ c.modification_count = 1
        /\ c.previous_check_in # c.check_in

ModifyOutcome(u, pk, ci, co, g) ==
    modify_booking(bookings, nextId, today, properties, u, pk, ci, co, g)

\* C14: a modify that fails, for whatever reason (no field, check_out not
\* after check_in, overlap with another active booking, guests over capacity,
\* status CANCELLED or COMPLETED, caller not the customer, or any other),
\* leaves every stored booking, and so its check_in, check_out, guests,
\* total_price, status, modification_count, modified_at, previous_check_in
\* and previous_check_out, unchanged
C14_FailedModifyChangesNothing ==
    \A u \in Users, pk \in BookingIds, ci \in RequestDates \cup {Null},
       co \in RequestDates \cup {Null}, g \in RequestGuests :
        LET o == ModifyOutcome(u, pk, ci, co, g)
        IN o.resp.result # "ok" => o.bookings = bookings

\* two active bookings share a property, and modifies of the first fail for no
\* field, for the range, for the overlap with the second, for the capacity
\* and for the caller; a modify of a CANCELLED or COMPLETED booking fails for
\* its state wherever there is one
C14_Witness ==
    \E b \in bookings, c \in bookings :
        /\ b.id # c.id
        /\ b.rental_property = c.rental_property
        /\ b.status \in ActiveSet /\ c.status \in ActiveSet
        /\ ModifyOutcome(b.customer, b.id, Null, Null, Null).resp.result = "no_fields"
        /\ ModifyOutcome(b.customer, b.id, b.check_out, Null, Null).resp.result
              = "invalid_date_range"
        /\ ModifyOutcome(b.customer, b.id, c.check_in, c.check_out, Null).resp.result
              = "property_not_available"
        /\ ModifyOutcome(b.customer, b.id, Null, Null, MaxGuests).resp.result
              = "capacity_exceeded"
        /\ ModifyOutcome("adam", b.id, Null, Null, 1).resp.result = "unauthorized"
        /\ \A d \in bookings :
              d.status \in {"CANCELLED", "COMPLETED"}
                  => ModifyOutcome(d.customer, d.id, Null, Null, 1).resp.result
                        = "invalid_state"

\* the create requests on the stored properties, valid or not
AllCreateRequests ==
    [user : Creators, property_id : PropertyIds, check_in : RequestDates,
     check_out : RequestDates, guests : 0..MaxGuests]

\* C15: a create fails and adds no booking whenever the property is not
\* APPROVED, or check_out <= check_in, or check_in is before today, or guests
\* exceeds the capacity; a check_in equal to today is not a past date: such a
\* request is never refused for its dates when check_out > check_in, and
\* succeeds when it is otherwise valid and the range is free
C15_CreateRefusesInvalid ==
    \A r \in AllCreateRequests :
        LET o == CreateOutcome(r)
        IN /\ (\/ properties[r.property_id].status # "APPROVED"
                \/ r.check_out <= r.check_in
                \/ r.check_in < today
                \/ r.guests > properties[r.property_id].capacity)
               => (o.resp.result # "ok" /\ o.bookings = bookings)
           /\ (r.check_in = today /\ r.check_out > r.check_in)
               => /\ o.resp.result # "invalid_date_range"
                  /\ (/\ r \in ValidCreateRequests
                       /\ Occupying(bookings, r.property_id, r.check_in,
                                     r.check_out, Null) = {})
                      => o.resp.result = "ok"

\* the clock has moved, a booking that begins today is stored, a create for
\* today is accepted, and creates for yesterday, for an empty range, for a
\* property still PENDING and for too many guests are refused
C15_Witness ==
    /\ today = 2
    /\ \E b \in bookings : b.check_in = today /\ b.rental_property = 2
    /\ create_booking(bookings, nextId, today, properties, "carol", 1, 2, 3, 1)
          .resp.result = "ok"
    /\ create_booking(bookings, nextId, today, properties, "carol", 1, 1, 3, 1)
          .resp.result = "invalid_date_range"
    /\ create_booking(bookings, nextId, today, properties, "carol", 1, 2, 2, 1)
          .resp.result = "invalid_date_range"
    /\ create_booking(bookings, nextId, today, properties, "carol", 3, 2, 3, 1)
          .resp.result = "property_not_approved"
    /\ create_booking(bookings, nextId, today, properties, "carol", 1, 2, 3, MaxGuests)
          .resp.result = "capacity_exceeded"

\* C20: in every reachable state a booking's rejection_reason is non-null only
\* if its status is REJECTED; respond(reject) stores the reason supplied, or
\* 'No reason provided' when the request carries none, and respond(approve)
\* clears it
C20_ReasonOnlyWhenRejected ==
    /\ \A b \in bookings : b.rejection_reason # NoReason => b.status = "REJECTED"
    /\ \A b \in bookings, a \in respond_actions, r \in AllReasons :
          LET o == RespondOutcome(properties[b.rental_property].owner, b.id, a, r)
          IN o.resp.result = "ok" =>
               Get(o.bookings, b.id).rejection_reason =
                   (IF a = "approve" THEN NoReason
                    ELSE IF r = "ABSENT" THEN "No reason provided" ELSE r)

----------------------------------------------------------------------------
(* SpecRest: the routes of BookingViewSet, a ModelViewSet.  Besides cancel,   *)
(* respond and modify, the router serves the standard create, update (PUT),  *)
(* partial_update (PATCH) and destroy (DELETE), all through                  *)
(* BookingSerializer.  A request body is a function from the names of the    *)
(* fields it carries to their values                                         *)

\* a body field that is carried only when its value is not Null / "ABSENT"
Opt(f, v) == IF v = Null THEN <<>> ELSE (f :> v)
OptS(f, v) == IF v = "ABSENT" THEN <<>> ELSE (f :> v)

request_data(property_id, check_in, check_out, guests, status, customer) ==
    Opt("property_id", property_id) @@ Opt("check_in", check_in)
    @@ Opt("check_out", check_out) @@ Opt("guests", guests)
    @@ OptS("status", status) @@ OptS("customer", customer)

\* a serializer whose status field is writable
read_only_fields_without_status ==
    {"id", "customer", "total_price", "currency", "rejection_reason",
     "modified_at", "modification_count", "previous_check_in", "previous_check_out"}

read_only_fields ==
    {"id", "customer", "status", "total_price", "currency", "rejection_reason",
     "modified_at", "modification_count", "previous_check_in", "previous_check_out"}

\* the fields of the body that reach validate(): read-only fields are dropped
to_internal_value(data) == [f \in DOMAIN data \ read_only_fields |-> data[f]]

\* attrs.get(f)
Field(attrs, f) == IF f \in DOMAIN attrs THEN attrs[f] ELSE Null

required_fields == {"property_id", "check_in", "check_out", "guests"}

\* the fields BookingSerializer.create sets itself, whatever the body carries
create_sets == {"id", "rental_property", "customer", "currency", "total_price"}

\* BookingSerializer.validate on the attrs of any request, with the instance
\* being updated (Null on create) excluded from the availability check
validate_attrs(bks, tdy, props, attrs, instance_id) ==
    LET check_in == Field(attrs, "check_in")
        check_out == Field(attrs, "check_out")
        property_id == Field(attrs, "property_id")
        guests == Field(attrs, "guests")
        dates == check_in # Null /\ check_out # Null
    IN IF dates /\ check_out <= check_in
       THEN [result |-> "invalid_date_range", count |-> 0]
       ELSE IF dates /\ check_in_in_past(check_in, tdy)
       THEN [result |-> "invalid_date_range", count |-> 0]
       ELSE IF ~(property_id # Null /\ dates) THEN [result |-> "ok", count |-> 0]
       ELSE IF property_id \notin DOMAIN props
       THEN [result |-> "property_not_found", count |-> 0]
       ELSE IF props[property_id].status # "APPROVED"
       THEN [result |-> "property_not_approved", count |-> 0]
       ELSE LET av == check_availability(bks, property_id, check_in, check_out,
                                         instance_id)
            IN IF ~av.is_available
               THEN [result |-> "property_not_available",
                     count |-> Cardinality(av.conflicting_bookings)]
               ELSE IF guests # Null /\ guests > props[property_id].capacity
               THEN [result |-> "capacity_exceeded", count |-> 0]
               ELSE [result |-> "ok", count |-> 0]

\* the field validation of is_valid(): required fields (unless partial) and
\* guests at least 1
fields_valid(attrs, partial) ==
    /\ partial \/ required_fields \subseteq DOMAIN attrs
    /\ "guests" \in DOMAIN attrs => attrs["guests"] >= 1

\* POST /bookings/ with any body: the row is the model's defaults, the fields
\* of the body that were not dropped, and what BookingSerializer.create sets
post_booking(bks, nid, tdy, props, user, data) ==
    LET attrs == to_internal_value(data)
        refused(result, count) == Outcome(bks, nid, Response("create", result, Null, count))
    IN IF ~fields_valid(attrs, FALSE) THEN refused("invalid_fields", 0)
       ELSE LET v == validate_attrs(bks, tdy, props, attrs, Null)
            IN IF v.result # "ok" THEN refused(v.result, v.count)
               ELSE LET base == new_booking(nid, props, user, attrs["property_id"],
                                            attrs["check_in"], attrs["check_out"],
                                            attrs["guests"])
                        row == [f \in DOMAIN base |->
                                   IF f \in DOMAIN attrs /\ f \notin create_sets
                                   THEN attrs[f] ELSE base[f]]
                        s == booking_save(bks, nid, tdy, props, row, "create")
                    IN IF s.resp.result = "ok"
                       THEN Outcome(s.bookings, nid + 1, s.resp)
                       ELSE refused(s.resp.result, 0)

\* IsBookingCustomer.has_object_permission for a method that is not safe
IsBookingCustomer(booking, user) == booking.customer = user

\* PUT (partial = FALSE) or PATCH (partial = TRUE) /bookings/{pk}/:
\* UpdateModelMixin.update with BookingSerializer(instance, data, partial);
\* ModelSerializer.update sets the validated fields on the instance and saves
update_booking(bks, nid, tdy, props, user, pk, data, partial) ==
    LET refused(result, count) == Outcome(bks, nid, Response("update", result, pk, count))
    IN IF pk \notin Ids(get_queryset(bks, props, user)) THEN refused("not_found", 0)
       ELSE LET booking == Get(bks, pk)
                attrs == to_internal_value(data)
            IN IF ~IsBookingCustomer(booking, user) THEN refused("unauthorized", 0)
               ELSE IF ~fields_valid(attrs, partial) THEN refused("invalid_fields", 0)
               ELSE LET v == validate_attrs(bks, tdy, props, attrs, booking.id)
                    IN IF v.result # "ok" THEN refused(v.result, v.count)
                       ELSE booking_save(bks, nid, tdy, props,
                                [f \in DOMAIN booking |->
                                    IF f \in DOMAIN attrs THEN attrs[f] ELSE booking[f]],
                                "update")

\* DELETE /bookings/{pk}/: DestroyModelMixin.destroy, instance.delete()
destroy_booking(bks, nid, props, user, pk) ==
    LET refused(result) == Outcome(bks, nid, Response("destroy", result, pk, 0))
    IN IF pk \notin Ids(get_queryset(bks, props, user)) THEN refused("not_found")
       ELSE LET booking == Get(bks, pk)
            IN IF ~IsBookingCustomer(booking, user) THEN refused("unauthorized")
               ELSE Outcome(bks \ {booking}, nid, Response("destroy", "ok", pk, 0))

RestProperties == {1}
RestGuests == {1, 2}
RestStatuses == {"ABSENT", "APPROVED"}
RestCustomers == {"ABSENT", "olive"}
RestCallers == {"carol", "oscar"}

Post ==
    \E p \in RestProperties, ci \in RequestDates, co \in RequestDates,
       g \in RestGuests, st \in RestStatuses, cu \in RestCustomers :
        /\ nextId <= MaxBookings
        /\ Apply(post_booking(bookings, nextId, today, properties, "carol",
                              request_data(p, ci, co, g, st, cu)))
        /\ UNCHANGED <<today, properties, reqs, answer>>

Put ==
    \E u \in RestCallers, pk \in BookingIds, p \in RestProperties,
       ci \in RequestDates, co \in RequestDates, g \in RestGuests :
        /\ Apply(update_booking(bookings, nextId, today, properties, u, pk,
                                request_data(p, ci, co, g, "APPROVED", "ABSENT"),
                                FALSE))
        /\ UNCHANGED <<today, properties, reqs, answer>>

Patch ==
    \E pk \in BookingIds, ci \in RequestDates \cup {Null},
       co \in RequestDates \cup {Null}, g \in RestGuests \cup {Null} :
        /\ Apply(update_booking(bookings, nextId, today, properties, "carol", pk,
                                request_data(Null, ci, co, g, "ABSENT", "ABSENT"),
                                TRUE))
        /\ UNCHANGED <<today, properties, reqs, answer>>

Destroy ==
    \E u \in RestCallers, pk \in BookingIds :
        /\ Apply(destroy_booking(bookings, nextId, properties, u, pk))
        /\ UNCHANGED <<today, properties, reqs, answer>>

RestRespond == RespondReq({"oscar"}, respond_actions, RequestReasons)
RestCancel == CancelReq({"carol"})
RestModify == ModifyReq({"carol"}, RequestDates, {Null, 1})

NextRest ==
    Post \/ Put \/ Patch \/ Destroy \/ RestRespond \/ RestCancel \/ RestModify

SpecRest == Init /\ [][NextRest]_vars

----------------------------------------------------------------------------
(* Properties of SpecRest *)

\* the bodies of create requests that carry a status and a customer of their own
PostBodies ==
    {request_data(p, ci, co, g, st, cu) :
        p \in {1, 2}, ci \in RequestDates, co \in RequestDates, g \in RestGuests,
        st \in {"ABSENT", "APPROVED", "CANCELLED"}, cu \in RestCustomers}

\* C16: every booking a successful create stores has status PENDING, whatever
\* status the request carries, the requesting user as customer, the currency
\* of its property, modification_count 0 and null previous_check_in,
\* previous_check_out and rejection_reason
C16_CreatedBookingIsPending ==
    \A data \in PostBodies :
        LET o == post_booking(bookings, nextId, today, properties, "carol", data)
        IN o.resp.result = "ok" =>
             \E c \in o.bookings :
                /\ o.bookings = bookings \cup {c}
                /\ c \notin bookings
                /\ c.status = "PENDING"
                /\ c.customer = "carol"
                /\ c.currency = properties[data["property_id"]].currency
                /\ c.modification_count = 0
                /\ c.previous_check_in = Null
                /\ c.previous_check_out = Null
                /\ c.rejection_reason = NoReason

\* a booking is stored, and a create whose body says status APPROVED and names
\* another customer succeeds beside it
C16_Witness ==
    /\ \E b \in bookings :
          b.status = "PENDING" /\ b.customer = "carol" /\ b.modification_count = 0
    /\ \E data \in PostBodies :
          /\ "status" \in DOMAIN data /\ data["status"] = "APPROVED"
          /\ "customer" \in DOMAIN data /\ data["customer"] = "olive"
          /\ post_booking(bookings, nextId, today, properties, "carol", data)
                .resp.result = "ok"

\* C17: with price_per_night fixed, every stored booking has
\* total_price = price_per_night * (check_out - check_in)
C17_PriceFollowsDates ==
    \A b \in bookings :
        b.total_price = properties[b.rental_property].price_per_night
                        * (b.check_out - b.check_in)

\* C18: check_in, check_out and guests of a stored booking change only by a
\* modify: every step that changes one of them finds the booking neither
\* CANCELLED nor COMPLETED, its new range free of other active bookings and its
\* guests within the capacity, and raises modification_count by one, keeps the
\* former dates in previous_check_in/out and recomputes total_price
C18_DatesChangeOnlyByModify ==
    [][\A b \in bookings, c \in bookings' :
          (/\ c.id = b.id
           /\ \/ c.check_in # b.check_in
              \/ c.check_out # b.check_out
              \/ c.guests # b.guests)
          => /\ b.status \notin {"CANCELLED", "COMPLETED"}
             /\ Occupying(bookings, b.rental_property, c.check_in, c.check_out,
                          b.id) = {}
             /\ c.guests <= properties[b.rental_property].capacity
             /\ c.modification_count = b.modification_count + 1
             /\ c.previous_check_in = b.check_in
             /\ c.previous_check_out = b.check_out
             /\ c.total_price = properties[b.rental_property].price_per_night
                                * (c.check_out - c.check_in)]_vars

\* C19: no operation removes a booking: every stored booking is still stored
\* after every step
C19_NeverRemoved ==
    [][Ids(bookings) \subseteq Ids(bookings')]_vars

----------------------------------------------------------------------------
(* Properties of Spec: guests, frames, validation on every write, tracking *)

\* C23: the capacities of the properties being fixed, every PENDING or
\* APPROVED booking of every state reached through create, respond, cancel and
\* modify has at least one guest and no more guests than its property's
\* capacity
C23_GuestsWithinCapacity ==
    \A b \in bookings :
        b.status \in {"PENDING", "APPROVED"}
            => /\ 1 <= b.guests
               /\ b.guests <= properties[b.rental_property].capacity

\* a PENDING or APPROVED booking fills its property, after a modify of its
\* guests; a further modify to more guests is refused for the capacity and one
\* to a negative number of guests by the validation of the save
C23_Witness ==
    \E b \in bookings :
        /\ b.status \in {"PENDING", "APPROVED"}
        /\ b.modification_count = 1
        /\ b.guests = properties[b.rental_property].capacity
        /\ b.check_in >= today
        /\ ModifyOutcome(b.customer, b.id, Null, Null, MaxGuests).resp.result
              = "capacity_exceeded"
        /\ ModifyOutcome(b.customer, b.id, Null, Null, -1).resp.result
              = "validation_error"

\* the outcome o changes, of the stored bookings, at most booking pk, and of
\* that booking only what Only(b, c) admits; it removes no booking
ChangesOnly(o, pk, Only(_, _)) ==
    /\ Ids(bookings) \subseteq Ids(o.bookings)
    /\ \A b \in bookings :
          LET c == Get(o.bookings, b.id)
          IN IF b.id = pk THEN Only(b, c) ELSE c = b

\* the fields cancel, respond and modify may write
CancelWrites(b, c) == c = [b EXCEPT !.status = c.status]

RespondWrites(b, c) ==
    c = [b EXCEPT !.status = c.status, !.rejection_reason = c.rejection_reason]

ModifyWrites(b, c) ==
    c = [b EXCEPT !.check_in = c.check_in,
                  !.check_out = c.check_out,
                  !.guests = c.guests,
                  !.total_price = c.total_price,
                  !.previous_check_in = c.previous_check_in,
                  !.previous_check_out = c.previous_check_out,
                  !.modification_count = c.modification_count,
                  !.modified_at = c.modified_at]

NothingWritten(b, c) == c = b

RefusedForPastCheckIn(c, o) ==
    (c.result = "ok" /\ c.obj.status # "COMPLETED" /\ c.obj.check_in < today)
        => (o.resp.result = "validation_error" /\ o.bookings = bookings)

C29_TrackingFieldsAgree ==
    \A b \in bookings :
        /\ (b.modification_count = 0) <=> (b.modified_at = Null)
        /\ (b.modified_at = Null)
              <=> (b.previous_check_in = Null /\ b.previous_check_out = Null)
        /\ b.modification_count > 0 => b.previous_check_out > b.previous_check_in

\* a booking never modified next to one whose modify moved it off its former
\* dates after the clock had advanced
C29_Witness ==
    \E b \in bookings, c \in bookings :
        /\ b.modification_count = 0
        /\ b.modified_at = Null
        /\ c.modification_count = 1
        /\ c.modified_at = MaxToday
        /\ c.previous_check_in # Null
        /\ c.previous_check_in # c.check_in
        /\ c.previous_check_out > c.previous_check_in

----------------------------------------------------------------------------
(* SpecRoles: the lifecycle requests with users of every role as customers:  *)
(* a create asks only for an authenticated user                              *)

RoleCreators == {"carol", "olive"}
RoleProperties == {1, 2}
RoleDates == 1..MaxDay
RoleGuests == {1}

RolesCreate == CreateReq(RoleCreators, RoleProperties, RoleDates, RoleGuests)
RolesRespond == RespondReq({"oscar", "olive"}, {"approve", "reject"}, {"ABSENT"})
RolesCancel == CancelReq(Users)
RolesModify == ModifyReq(RoleCreators, RoleDates, RoleGuests)

NextRoles == RolesCreate \/ RolesRespond \/ RolesCancel \/ RolesModify

SpecRoles == Init /\ [][NextRoles]_vars

\* the bookings a user's role lets the user look up
InScope(u, b) ==
    CASE role(u) = "CUSTOMER" -> b.customer = u
      [] role(u) = "OWNER" -> properties[b.rental_property].owner = u
      [] OTHER -> TRUE

Resolves(u, pk) == \E b \in bookings : b.id = pk /\ InScope(u, b)

\* C28: the lookup of a booking is scoped by the caller's role before any
\* check of the caller against the booking: a CUSTOMER resolves only the
\* bookings they made, an OWNER only the bookings of properties they own, an
\* ADMIN all, and cancel, respond and modify answer not-found exactly for the
\* bookings the caller does not resolve; hence an OWNER-role user who is the
\* customer of a booking of another owner's property gets not-found from cancel
\* and from modify, and the booking stays as it is
C28_LookupScopedByRole ==
    /\ \A u \in Users, pk \in BookingIds :
          /\ (cancel_booking(bookings, nextId, today, properties, u, pk)
                  .resp.result = "not_found") <=> ~Resolves(u, pk)
          /\ \A a \in AllActions, r \in AllReasons :
                (RespondOutcome(u, pk, a, r).resp.result = "not_found")
                    <=> ~Resolves(u, pk)
          /\ \A ci \in RoleDates \cup {Null}, co \in RoleDates \cup {Null},
                g \in RoleGuests \cup {Null} :
                (ModifyOutcome(u, pk, ci, co, g).resp.result = "not_found")
                    <=> ~Resolves(u, pk)
    /\ \A b \in bookings :
          (is_owner(b.customer) /\ properties[b.rental_property].owner # b.customer)
              => LET o == cancel_booking(bookings, nextId, today, properties,
                                         b.customer, b.id)
                 IN /\ o.resp.result = "not_found"
                    /\ o.bookings = bookings
                    /\ \A ci \in RoleDates \cup {Null}, co \in RoleDates \cup {Null},
                          g \in RoleGuests \cup {Null} :
                          LET m == ModifyOutcome(b.customer, b.id, ci, co, g)
                          IN m.resp.result = "not_found" /\ m.bookings = bookings

\* the owner olive is the customer of an open booking of oscar's property,
\* which she can neither cancel nor modify, and of a booking of her own
\* property, which she can cancel; the admin who looks the first one up is
\* refused as not being its customer
C28_Witness ==
    \E b \in bookings, c \in bookings :
        /\ b.customer = "olive" /\ properties[b.rental_property].owner = "oscar"
        /\ b.status \in {"PENDING", "APPROVED"}
        /\ cancel_booking(bookings, nextId, today, properties, "olive", b.id)
              .resp.result = "not_found"
        /\ ModifyOutcome("olive", b.id, Null, Null, 1).resp.result = "not_found"
        /\ cancel_booking(bookings, nextId, today, properties, "adam", b.id)
              .resp.result = "unauthorized"
        /\ c.customer = "olive" /\ properties[c.rental_property].owner = "olive"
        /\ cancel_booking(bookings, nextId, today, properties, "olive", c.id)
              .resp.result = "ok"

----------------------------------------------------------------------------
(* SpecBulk: AvailabilityChecker.get_available_properties on seeded tables *)

\* a bulk filter that counts only the bookings the owner has accepted
bulk_active_statuses_approved_only == {"APPROVED"}

bulk_active_statuses == {"PENDING", "APPROVED", "COMPLETED"}

\* Property.objects.filter(status='APPROVED'), the queryset of a call without one
default_queryset(props) == {p \in DOMAIN props : props[p].status = "APPROVED"}

\* get_available_properties: the ids of the properties with a conflicting
\* booking, in one query over all bookings, excluded from the queryset
get_available_properties(bks, check_in, check_out, queryset) ==
    LET conflicting_bookings ==
            {b.rental_property :
                b \in {x \in bks : /\ x.status \in bulk_active_statuses
                                   /\ x.check_in < check_out
                                   /\ x.check_out > check_in}}
    IN queryset \ conflicting_bookings

BulkQuerysets == (SUBSET QueryProperties) \cup {default_queryset(InitProperties)}

\* one call of get_available_properties, its arguments and result kept in answer
QueryAvailable ==
    \E ci \in QueryDates, co \in QueryDates, qs \in BulkQuerysets :
        /\ ci < co
        /\ answer' = [asked |-> TRUE, check_in |-> ci, check_out |-> co,
                      queryset |-> qs,
                      available_properties |->
                          get_available_properties(bookings, ci, co, qs)]
        /\ UNCHANGED <<bookings, nextId, today, properties, reqs>>

NextBulk == Seed \/ QueryAvailable

SpecBulk == Init /\ [][NextBulk]_vars

\* C24: a property is in get_available_properties(check_in, check_out,
\* candidates) iff it is a candidate and check_availability(property,
\* check_in, check_out) finds it available: the bulk query and the
\* per-property check agree on every table of bookings
C24_BulkAgreesWithCheck ==
    answer.asked =>
        \A p \in PropertyIds :
            (p \in answer.available_properties)
                <=> /\ p \in answer.queryset
                    /\ check_availability(bookings, p, answer.check_in,
                                          answer.check_out, Null).is_available

\* of two candidates the bulk query returned one: the other has a PENDING
\* booking in the range, and the one returned has only a CANCELLED or REJECTED
\* booking there
C24_Witness ==
    /\ answer.asked
    /\ answer.queryset = {1, 2}
    /\ Cardinality(answer.available_properties) = 1
    /\ \E b \in bookings, c \in bookings :
          /\ b.rental_property \notin answer.available_properties
          /\ b.status = "PENDING"
          /\ c.rental_property \in answer.available_properties
          /\ c.status \in {"CANCELLED", "REJECTED"}
          /\ overlap_filter(c, answer.check_in, answer.check_out)

----------------------------------------------------------------------------
(* SpecListing: PropertyViewSet.availability, the calendar of one property,   *)
(* on seeded tables                                                           *)

listing_active_statuses == {"PENDING", "APPROVED", "COMPLETED"}

\* the bookings the listing reads: those of the property, active, that touch
\* the range of dates
listing_bookings(bks, property, start_date, end_date) ==
    {b \in bks : /\ b.rental_property = property
                 /\ b.status \in listing_active_statuses
                 /\ b.check_in <= end_date
                 /\ b.check_out >= start_date}

\* order_by('check_in'): the orders the database may return the rows in
ordered_by_check_in(rows) ==
    {s \in [1..Cardinality(rows) -> rows] :
        /\ \A i, j \in DOMAIN s : i # j => s[i] # s[j]
        /\ \A i, j \in DOMAIN s : i < j => s[i].check_in <= s[j].check_in}

\* a test of the date that counts the day of departure as booked
is_within_booking_closed(booking, current_date) ==
    booking.check_in <= current_date /\ current_date <= booking.check_out

\* booking.check_in <= current_date < booking.check_out
is_within_booking(booking, current_date) ==
    booking.check_in <= current_date /\ current_date < booking.check_out

\* the loop of the listing from current_date to end_date: a date goes to
\* booked_dates with the first booking it lies within, or to available_dates
RECURSIVE build_calendar(_, _, _, _)
build_calendar(rows, current_date, end_date, lists) ==
    IF current_date > end_date THEN lists
    ELSE LET hits == {i \in DOMAIN rows : is_within_booking(rows[i], current_date)}
         IN IF hits = {}
            THEN build_calendar(rows, current_date + 1, end_date,
                     [lists EXCEPT !.available_dates = Append(@, current_date)])
            ELSE LET booking == rows[CHOOSE i \in hits : \A j \in hits : i <= j]
                 IN build_calendar(rows, current_date + 1, end_date,
                        [lists EXCEPT !.booked_dates =
                            Append(@, [date |-> current_date,
                                       booking_id |-> booking.id,
                                       status |-> booking.status])])

\* GET /properties/{id}/availability/ with the rows in the order given
availability(rows, start_date, end_date) ==
    build_calendar(rows, start_date, end_date,
                   [available_dates |-> <<>>, booked_dates |-> <<>>])

\* one request of the listing, its arguments and its two lists kept in answer
Availability ==
    \E p \in QueryProperties, start_date \in QueryDates, end_date \in QueryDates :
        \E rows \in ordered_by_check_in(
                        listing_bookings(bookings, p, start_date, end_date)) :
            LET lists == availability(rows, start_date, end_date)
            IN /\ answer' = [asked |-> TRUE, property |-> p,
                             start_date |-> start_date, end_date |-> end_date,
                             available_dates |-> lists.available_dates,
                             booked_dates |-> lists.booked_dates]
               /\ UNCHANGED <<bookings, nextId, today, properties, reqs>>

NextListing == Seed \/ Availability

SpecListing == Init /\ [][NextListing]_vars

\* how often date d occurs in the two lists of the answer
Occurrences(d) ==
    Cardinality({i \in DOMAIN answer.available_dates : answer.available_dates[i] = d})
    + Cardinality({i \in DOMAIN answer.booked_dates : answer.booked_dates[i].date = d})

IsBookedDate(d) == \E i \in DOMAIN answer.booked_dates : answer.booked_dates[i].date = d

\* C30: in the availability listing of a property over the inclusive range
\* start_date..end_date every date of the range appears in exactly one of
\* available_dates and booked_dates (and no other date appears); and a date d
\* is booked iff some PENDING, APPROVED or COMPLETED booking of the property
\* has check_in <= d < check_out, that is iff check_availability(property, d,
\* d + 1) reports the property unavailable
C30_ListingPartitionsRange ==
    answer.asked =>
        /\ \A d \in 0..(MaxQueryDay + 1) :
              Occurrences(d)
                  = (IF answer.start_date <= d /\ d <= answer.end_date THEN 1 ELSE 0)
        /\ \A d \in answer.start_date..answer.end_date :
              /\ IsBookedDate(d)
                    <=> \E b \in bookings :
                            /\ b.rental_property = answer.property
                            /\ b.status \in ActiveSet
                            /\ b.check_in <= d /\ d < b.check_out
              /\ IsBookedDate(d)
                    <=> ~check_availability(bookings, answer.property, d, d + 1,
                                            Null).is_available

\* a listing over the whole calendar with booked and available dates, where a
\* booking ends inside the range on a day that is available, and a CANCELLED
\* booking of the property covers an available day
C30_Witness ==
    /\ answer.asked
    /\ answer.start_date = 1 /\ answer.end_date = MaxQueryDay
    /\ Len(answer.booked_dates) >= 1
    /\ \E b \in bookings, c \in bookings :
          /\ b.rental_property = answer.property /\ b.status \in ActiveSet
          /\ b.check_out <= answer.end_date
          /\ ~IsBookedDate(b.check_out)
          /\ IsBookedDate(b.check_in)
          /\ c.rental_property = answer.property /\ c.status = "CANCELLED"
          /\ ~IsBookedDate(c.check_in)

----------------------------------------------------------------------------
(* SpecAdmin: AdminPropertyViewSet, the moderation of property listings,     *)
(* next to customers who book and cancel                                     *)

\* what a moderation request leaves behind: the table of properties and the
\* result of the response
Moderated(props, result) == [properties |-> props, result |-> result]

\* permission_classes = [IsAuthenticated, IsAdmin], then get_object()
admin_get_object(props, user, pk) ==
    IF ~is_admin(user) THEN "forbidden"
    ELSE IF pk \notin DOMAIN props THEN "not_found"
    ELSE "ok"

\* an approve that does not look at the status it finds
admin_approve_unchecked(props, user, pk) ==
    IF admin_get_object(props, user, pk) # "ok"
    THEN Moderated(props, admin_get_object(props, user, pk))
    ELSE Moderated([props EXCEPT ![pk].status = "APPROVED",
                                 ![pk].rejection_reason = NoReason], "ok")

\* POST /admin/properties/{id}/approve/
admin_approve(props, user, pk) ==
    IF admin_get_object(props, user, pk) # "ok"
    THEN Moderated(props, admin_get_object(props, user, pk))
    ELSE IF props[pk].status = "APPROVED"
    THEN Moderated(props, "already_approved")
    ELSE Moderated([props EXCEPT ![pk].status = "APPROVED",
                                 ![pk].rejection_reason = NoReason], "ok")

\* request.data.get('rejection_reason', 'No reason provided')
property_rejection_reason_of(reason) ==
    IF reason = "ABSENT" THEN "No reason provided" ELSE reason

\* POST /admin/properties/{id}/reject/
admin_reject(props, user, pk, reason) ==
    IF admin_get_object(props, user, pk) # "ok"
    THEN Moderated(props, admin_get_object(props, user, pk))
    ELSE IF props[pk].status = "REJECTED"
    THEN Moderated(props, "already_rejected")
    ELSE Moderated([props EXCEPT ![pk].status = "REJECTED",
                                 ![pk].rejection_reason =
                                     property_rejection_reason_of(reason)], "ok")

\* POST /admin/properties/{id}/deactivate/
admin_deactivate(props, user, pk) ==
    IF admin_get_object(props, user, pk) # "ok"
    THEN Moderated(props, admin_get_object(props, user, pk))
    ELSE Moderated([props EXCEPT ![pk].status = "INACTIVE"], "ok")

AdminCallers == {"adam", "olive"}
AdminProperties == PropertyIds \cup {9}
AdminReasons == {"ABSENT", "unsafe"}

AdminApprove ==
    \E u \in AdminCallers, pk \in AdminProperties :
        /\ properties' = admin_approve(properties, u, pk).properties
        /\ UNCHANGED <<bookings, nextId, today, reqs, answer>>

AdminReject ==
    \E u \in AdminCallers, pk \in AdminProperties, r \in AdminReasons :
        /\ properties' = admin_reject(properties, u, pk, r).properties
        /\ UNCHANGED <<bookings, nextId, today, reqs, answer>>

AdminDeactivate ==
    \E u \in AdminCallers, pk \in AdminProperties :
        /\ properties' = admin_deactivate(properties, u, pk).properties
        /\ UNCHANGED <<bookings, nextId, today, reqs, answer>>

AdminCreate == CreateReq({"carol"}, {1, 2}, 1..MaxDay, {1})
AdminCancel == CancelReq({"carol"})

NextAdmin == AdminApprove \/ AdminReject \/ AdminDeactivate \/ AdminCreate \/ AdminCancel

SpecAdmin == Init /\ [][NextAdmin]_vars

\* the outcome o changes, of the properties, at most the status and the
\* rejection_reason of property pk
ModeratesOnly(o, pk) ==
    \A p \in PropertyIds :
        o.properties[p] =
            IF p = pk
            THEN [properties[p] EXCEPT !.status = o.properties[p].status,
                                       !.rejection_reason =
                                           o.properties[p].rejection_reason]
            ELSE properties[p]

\* what approve, reject and deactivate by an admin do to property pk in the
\* current state
ModerationOfProperty(pk) ==
    LET a == admin_approve(properties, "adam", pk)
        d == admin_deactivate(properties, "adam", pk)
    IN /\ ModeratesOnly(a, pk) /\ ModeratesOnly(d, pk)
       /\ IF properties[pk].status = "APPROVED"
          THEN a.result # "ok" /\ a.properties = properties
          ELSE /\ a.result = "ok"
               /\ a.properties[pk].status = "APPROVED"
               /\ a.properties[pk].rejection_reason = NoReason
       /\ \A r \in AdminReasons :
             LET j == admin_reject(properties, "adam", pk, r)
             IN /\ ModeratesOnly(j, pk)
                /\ IF properties[pk].status = "REJECTED"
                   THEN j.result # "ok" /\ j.properties = properties
                   ELSE /\ j.result = "ok"
                        /\ j.properties[pk].status = "REJECTED"
                        /\ j.properties[pk].rejection_reason
                              = (IF r = "ABSENT" THEN "No reason provided" ELSE r)
       /\ d.result = "ok"
       /\ d.properties[pk].status = "INACTIVE"
       /\ d.properties[pk].rejection_reason = properties[pk].rejection_reason

\* C26: the admin's approve of a property sets its status to APPROVED and
\* clears its rejection_reason from any status but APPROVED, where it fails
\* and changes nothing; reject sets REJECTED and the reason given from any
\* status but REJECTED, where it fails and changes nothing; deactivate sets
\* INACTIVE from every status and never fails; and no step that changes a
\* property changes a booking
C26_PropertyModeration ==
    [][/\ \A pk \in PropertyIds : ModerationOfProperty(pk)
       /\ properties' # properties => bookings' = bookings]_vars

\* a property with bookings of its own has been rejected with a reason and
\* another deactivated, and the admin's approve of the rejected one would
\* clear the reason
C26_Witness ==
    \E p \in PropertyIds, q \in PropertyIds :
        /\ properties[p].status = "REJECTED"
        /\ properties[p].rejection_reason = "unsafe"
        /\ properties[q].status = "INACTIVE"
        /\ \E b \in bookings : b.rental_property = p /\ b.status = "PENDING"
        /\ admin_approve(properties, "adam", p).properties[p].rejection_reason
              = NoReason
        /\ admin_reject(properties, "adam", p, "ABSENT").result = "already_rejected"

----------------------------------------------------------------------------
(* SpecMail: the booking requests and send_booking_status_email.  No view,   *)
(* serializer or signal of the backend calls the function: its one caller is *)
(* the script test_emails.py, modelled as one call at the end of a run       *)

customer_address == "customer@example.com"
owner_address == "owner@example.com"

\* User.email may be blank: the field is optional at registration
CustomerEmails == {"", customer_address}
OwnerEmails == {"", owner_address}

\* old_status as passed by the caller; None is "ABSENT"
OldStatuses == STATUS_CHOICES \cup {"ABSENT"}

\* what render_to_string and send_mail may do
Deliveries == {"ok", "render_error", "send_error"}

\* a status_config whose cancellation mail goes to the owner alone
status_recipients_cancelled_to_owner(status, customer_email, owner_email) ==
    CASE status = "PENDING" -> <<owner_email>>
      [] status = "APPROVED" -> <<customer_email>>
      [] status = "REJECTED" -> <<customer_email>>
      [] status = "CANCELLED" -> <<owner_email>>
      [] status = "COMPLETED" -> <<customer_email, owner_email>>
      [] OTHER -> <<>>

\* status_config[status]['recipients']
status_recipients(status, customer_email, owner_email) ==
    CASE status = "PENDING" -> <<owner_email>>
      [] status = "APPROVED" -> <<customer_email>>
      [] status = "REJECTED" -> <<customer_email>>
      [] status = "CANCELLED" -> <<owner_email, customer_email>>
      [] status = "COMPLETED" -> <<customer_email, owner_email>>
      [] OTHER -> <<>>

\* render_to_string twice, then send_mail(fail_silently=False)
render_and_send(delivery) == IF delivery = "ok" THEN "sent" ELSE "raised"

\* what a call comes to: the recipients of the mail that went out, and how the
\* call ended
Mail(recipients, result) == [recipients |-> recipients, result |-> result]

send_booking_status_email(status, old_status, customer_email, owner_email, delivery) ==
    IF old_status # "ABSENT" /\ old_status = status THEN Mail(<<>>, "skipped")
    ELSE IF status \notin STATUS_CHOICES THEN Mail(<<>>, "unknown_status")
    ELSE LET recipients ==
                 SelectSeq(status_recipients(status, customer_email, owner_email),
                           LAMBDA email : email # "")
         IN IF recipients = <<>> THEN Mail(<<>>, "no_recipients")
            ELSE IF render_and_send(delivery) = "raised"
                 THEN Mail(<<>>, "logged")
                 ELSE Mail(recipients, "sent")

\* test_emails.py: a call of send_booking_status_email on a stored booking,
\* its arguments and its result kept in answer
Notify ==
    \E b \in bookings, old_status \in OldStatuses, ce \in CustomerEmails,
       oe \in OwnerEmails, dl \in Deliveries :
        /\ ~answer.asked
        /\ LET m == send_booking_status_email(b.status, old_status, ce, oe, dl)
           IN answer' = [asked |-> TRUE, booking_id |-> b.id, status |-> b.status,
                         old_status |-> old_status, customer_email |-> ce,
                         owner_email |-> oe, delivery |-> dl,
                         recipients |-> m.recipients, result |-> m.result]
        /\ UNCHANGED <<bookings, nextId, today, properties, reqs>>

MailDates == 1..2

MailCreate == ~answer.asked /\ CreateReq({"carol"}, {1, 2}, MailDates, {1})
MailRespond ==
    ~answer.asked /\ RespondReq({"oscar", "olive"}, {"approve", "reject"}, {"ABSENT"})
MailCancel == ~answer.asked /\ CancelReq({"carol"})
MailComplete == ~answer.asked /\ Complete
MailTick == ~answer.asked /\ Tick

NextMail ==
    MailCreate \/ MailRespond \/ MailCancel \/ MailComplete \/ MailTick \/ Notify

SpecMail == Init /\ [][NextMail]_vars

\* C21: every committed status transition of a booking (its creation as
\* PENDING, approve, reject, cancel) is followed by a notification of the new
\* status to the notifier: the step that commits the transition leaves the
\* call of the notifier for that booking and status behind it
C21_TransitionEmitsNotification ==
    [][\A c \in bookings' :
          (/\ c.status \in {"PENDING", "APPROVED", "REJECTED", "CANCELLED"}
           /\ \A b \in bookings : b.id = c.id => b.status # c.status)
          => /\ answer'.asked
             /\ answer'.booking_id = c.id
             /\ answer'.status = c.status]_vars

\* the parties a status is to be notified to
ExpectedParties(status) ==
    CASE status = "PENDING" -> {"owner"}
      [] status \in {"APPROVED", "REJECTED"} -> {"customer"}
      [] OTHER -> {"owner", "customer"}

\* the parties the mail of the answer went to
AddressedParties ==
    {p \in {"owner", "customer"} :
        \E i \in DOMAIN answer.recipients :
            answer.recipients[i] = (IF p = "owner" THEN owner_address
                                    ELSE customer_address)}

\* the parties that have an email address
PartiesWithEmail ==
    {p \in {"owner", "customer"} :
        (IF p = "owner" THEN answer.owner_email ELSE answer.customer_email) # ""}

IsRepeat == answer.old_status # "ABSENT" /\ answer.old_status = answer.status

\* C22 as stated: the mail goes, by the booking's current status, to the owner
\* only (PENDING), to the customer only (APPROVED, REJECTED) or to both
\* (CANCELLED, COMPLETED); nothing is sent when old_status is given and equal
\* to the current status; an error of rendering or sending never reaches the
\* caller
C22_AddressedByStatus ==
    answer.asked =>
        /\ answer.result # "raised"
        /\ IsRepeat => answer.recipients = <<>>
        /\ (~IsRepeat /\ answer.delivery = "ok")
              => AddressedParties = ExpectedParties(answer.status)

\* C22 as the code has it: the mail goes to those of the parties of the
\* current status that have an email address, and no mail goes out when none
\* of them has one; nothing is sent when old_status is given and equal to the
\* current status; an error of rendering or sending is logged, no mail goes
\* out and the call returns
C22_AddressedByStatusAndEmail ==
    answer.asked =>
        /\ answer.result # "raised"
        /\ IsRepeat => (answer.recipients = <<>> /\ answer.result = "skipped")
        /\ (~IsRepeat /\ answer.delivery = "ok")
              => /\ AddressedParties
                       = ExpectedParties(answer.status) \cap PartiesWithEmail
                 /\ (answer.result = "sent") <=> (AddressedParties # {})
                 /\ Len(answer.recipients) = Cardinality(AddressedParties)
        /\ (~IsRepeat /\ answer.delivery # "ok")
              => /\ answer.recipients = <<>>
                 /\ answer.result \in {"logged", "no_recipients"}

\* the cancellation of a booking whose customer has no email address was
\* notified to the owner alone
C22_Witness ==
    /\ answer.asked
    /\ answer.status = "CANCELLED"
    /\ answer.old_status = "PENDING"
    /\ answer.customer_email = ""
    /\ answer.delivery = "ok"
    /\ answer.recipients = <<owner_address>>
    /\ answer.result = "sent"

====
